---- MODULE Spec2Model ----
(***************************************************************************)
(* Model of src/app.js: the Civil-Finloan HTTP service.  The state is the  *)
(* three MongoDB collections (Service, Request, Member), the remittance    *)
(* handler suspended at its await, and the last response sent.  Every      *)
(* route handler is one action, except the remittance handler whose read   *)
(* and response are separate steps.                                        *)
(***************************************************************************)
EXTENDS Integers, Sequences, FiniteSets, TLC

VARIABLES services, requests, members, remit, last

vars == <<services, requests, members, remit, last>>

(***************************************************************************)
(* Bounds of the model.                                                    *)
(***************************************************************************)
MaxRequests == 2
MaxMembers == 2

(***************************************************************************)
(* JSON values of a request body: a number or a string.                    *)
(***************************************************************************)
Num(n) == [t |-> "num", n |-> n, s |-> ""]
Str(s) == [t |-> "str", n |-> 0, s |-> s]

\* Strings that read as numbers, with the number they read as.
NumericStrings == [s \in {"1", "2"} |-> IF s = "1" THEN 1 ELSE 2]

\* Strings with valid e-mail syntax among the strings the model uses.
ValidEmails == {"a@x.io", "b@x.io"}

NoDoc == [null |-> TRUE]

(***************************************************************************)
(* Joi schemas (convert mode, unknown keys rejected).                      *)
(***************************************************************************)
JoiNumber(v) == v.t = "num" \/ (v.t = "str" /\ v.s \in DOMAIN NumericStrings)
JoiString(v) == v.t = "str" /\ v.s # ""
\* JoiEmail with the e-mail syntax check left out.
JoiEmailAnyString(v) == JoiString(v)

JoiEmail(v) == JoiString(v) /\ v.s \in ValidEmails

requestSchemaValidation(body) ==
    /\ DOMAIN body \subseteq {"mobile", "email", "amt", "type", "msg", "code"}
    /\ "mobile" \in DOMAIN body /\ JoiNumber(body.mobile)
    /\ "email" \in DOMAIN body /\ JoiEmail(body.email)
    /\ "amt" \in DOMAIN body /\ JoiNumber(body.amt)
    /\ "type" \in DOMAIN body /\ JoiString(body.type)
    /\ ("msg" \in DOMAIN body => JoiString(body.msg))
    /\ ("code" \in DOMAIN body => JoiString(body.code))

memberSchemaValidation(body) ==
    /\ DOMAIN body \subseteq {"mobile", "email", "occupation", "createpassword"}
    /\ "mobile" \in DOMAIN body /\ JoiNumber(body.mobile)
    /\ "email" \in DOMAIN body /\ JoiEmail(body.email)
    /\ "occupation" \in DOMAIN body /\ JoiString(body.occupation)
    /\ "createpassword" \in DOMAIN body /\ JoiString(body.createpassword)

\* validate(schema): TRUE when next() is called, FALSE when it answers 400.
validateRequest(body) == requestSchemaValidation(body)
validateMember(body) == memberSchemaValidation(body)

(***************************************************************************)
(* Mongoose casting to the schema types.                                   *)
(***************************************************************************)
CanCastNumber(v) == v.t = "num" \/ v.s \in DOMAIN NumericStrings
CastNumber(v) == IF v.t = "num" THEN v.n ELSE NumericStrings[v.s]
CastString(v) ==
    IF v.t = "str" THEN v.s
    ELSE CHOOSE s \in DOMAIN NumericStrings : NumericStrings[s] = v.n

requestSchema == [num |-> {"mobile", "amt"}, str |-> {"email", "type", "msg", "code"}]
memberSchema == [num |-> {"mobile"}, str |-> {"email", "occupation", "createpassword"}]

\* Body fields outside the schema are dropped (strict mode).
CanCast(schema, body) ==
    \A f \in DOMAIN body \cap schema.num : CanCastNumber(body[f])
CastDoc(schema, body) ==
    [f \in DOMAIN body \cap (schema.num \cup schema.str) |->
        IF f \in schema.num THEN CastNumber(body[f]) ELSE CastString(body[f])]

(***************************************************************************)
(* The document store: a collection is the sequence of its documents in    *)
(* the store's natural order.                                              *)
(***************************************************************************)
Matches(coll, mobile) == {i \in 1..Len(coll) : coll[i].mobile = mobile}

FirstMatch(coll, mobile) ==
    IF Matches(coll, mobile) = {} THEN 0
    ELSE CHOOSE i \in Matches(coll, mobile) : \A j \in Matches(coll, mobile) : i <= j

findOne(coll, mobile) ==
    IF FirstMatch(coll, mobile) = 0 THEN NoDoc ELSE coll[FirstMatch(coll, mobile)]

Merge(doc, upd) ==
    [f \in DOMAIN doc \cup DOMAIN upd |-> IF f \in DOMAIN upd THEN upd[f] ELSE doc[f]]

\* The collection after findOneAndUpdate with a $set of upd.
findOneAndUpdate(coll, mobile, upd) ==
    IF FirstMatch(coll, mobile) = 0 THEN coll
    ELSE [coll EXCEPT ![FirstMatch(coll, mobile)] = Merge(@, upd)]

RemoveAt(coll, i) ==
    [j \in 1..(Len(coll) - 1) |-> IF j < i THEN coll[j] ELSE coll[j + 1]]

\* findOneAndDelete removing every match.
findOneAndDeleteMany(coll, mobile) ==
    LET keep == {i \in 1..Len(coll) : coll[i].mobile # mobile}
        nth(k) == CHOOSE i \in keep : Cardinality({j \in keep : j <= i}) = k
    IN [k \in 1..Cardinality(keep) |-> coll[nth(k)]]

\* The collection after findOneAndDelete.
findOneAndDelete(coll, mobile) ==
    IF FirstMatch(coll, mobile) = 0 THEN coll
    ELSE RemoveAt(coll, FirstMatch(coll, mobile))

(***************************************************************************)
(* Responses.  A status of NoResponse stands for a request that never gets *)
(* an answer.                                                              *)
(***************************************************************************)
NoResponse == 0

Response(op, status, msg, req, doc) ==
    [op |-> op, status |-> status, msg |-> msg, req |-> req, doc |-> doc]

NoBody == [none |-> Num(0)]

\* The remittance handler when no remittance is suspended at its await.
Idle == [pc |-> "idle", body |-> NoBody, userRequest |-> NoDoc]

\* JavaScript truthiness of body[f]: a missing field, 0 and "" are falsy.
Truthy(body, f) ==
    /\ f \in DOMAIN body
    /\ IF body[f].t = "num" THEN body[f].n # 0 ELSE body[f].s # ""

\* What becomes of a promise rejected in a handler without try/catch: the
\* framework either leaves the request unanswered or answers 500.
UnhandledOutcomes == {NoResponse, 500}

(***************************************************************************)
(* Inputs.                                                                 *)
(***************************************************************************)
EnquiryA == [mobile |-> Num(1), email |-> Str("a@x.io"), amt |-> Num(1000), type |-> Str("personal")]
EnquiryB == [mobile |-> Num(1), email |-> Str("b@x.io"), amt |-> Num(500), type |-> Str("home"),
             msg |-> Str("hi"), code |-> Str("c1")]
EnquiryC == [mobile |-> Str("2"), email |-> Str("a@x.io"), amt |-> Num(1000), type |-> Str("personal")]

EnquiryBodies ==
    { EnquiryA, EnquiryB, EnquiryC,
      [email |-> Str("a@x.io"), amt |-> Num(1000), type |-> Str("personal")],
      [EnquiryA EXCEPT !.email = Str("nomail")],
      [EnquiryA EXCEPT !.amt = Str("abc")],
      [mobile |-> Num(2), email |-> Str("a@x.io"), amt |-> Num(1000), type |-> Str("personal"),
       occupation |-> Str("clerk")] }

MemberA == [mobile |-> Num(1), email |-> Str("a@x.io"), occupation |-> Str("clerk"),
            createpassword |-> Str("pw1")]
MemberB == [mobile |-> Str("2"), email |-> Str("b@x.io"), occupation |-> Str("nurse"),
            createpassword |-> Str("pw1")]

MemberBodies ==
    { MemberA, MemberB,
      [mobile |-> Num(1), email |-> Str("a@x.io"), occupation |-> Str("clerk")],
      [MemberA EXCEPT !.createpassword = Num(5)] }

UpdateBodies ==
    { EnquiryB,
      [mobile |-> Str("2"), amt |-> Num(700)],
      [mobile |-> Num(1), amt |-> Str("abc")] }

PasswordBodies ==
    { [mobile |-> Num(1), password |-> Str("pw2")],
      [mobile |-> Str("2"), password |-> Str("pw2")],
      [mobile |-> Str("abc"), password |-> Str("pw2")] }

MobileBodies ==
    { [mobile |-> Num(1)], [mobile |-> Str("2")], [mobile |-> Str("abc")] }

RemitBodies ==
    { [amt |-> Num(500), mobile |-> Num(1)],
      [amt |-> Num(500), mobile |-> Str("2")],
      [amt |-> Num(500), mobile |-> Str("abc")],
      [amt |-> Num(500), mobile |-> Num(0)],
      [amt |-> Num(0), mobile |-> Num(1)],
      [mobile |-> Num(1)] }

CalculateBodies ==
    { b \in UNION { [D -> {Num(-1000), Num(-12), Num(0), Num(12), Num(50), Num(1000)}] :
                      D \in SUBSET {"amt", "tenure"} } :
        /\ ("amt" \in DOMAIN b => b.amt.n \in {-1000, 0, 50, 1000})
        /\ ("tenure" \in DOMAIN b => b.tenure.n \in {-12, 0, 12}) }

Types == {"personal", "home", "gold"}

(***************************************************************************)
(* Enquiry lifecycle and member registry: one action per route handler.    *)
(* ok is whether the store carries out the handler's operation.            *)
(***************************************************************************)
SubmitEnquiry(body, ok) ==
    /\ IF ~validateRequest(body)
       THEN /\ last' = Response("submitEnquiry", 400, "ValidationError", body, NoDoc)
            /\ UNCHANGED requests
       ELSE IF ok
       THEN /\ Len(requests) < MaxRequests
            /\ requests' = Append(requests, CastDoc(requestSchema, body))
            /\ last' = Response("submitEnquiry", 201, "Loan enquiry submitted successfully",
                                body, NoDoc)
       ELSE /\ last' = Response("submitEnquiry", 400, "Failed to submit loan enquiry",
                                body, NoDoc)
            /\ UNCHANGED requests
    /\ UNCHANGED <<services, members, remit>>

Register(body, ok) ==
    /\ IF ~validateMember(body)
       THEN /\ last' = Response("register", 400, "ValidationError", body, NoDoc)
            /\ UNCHANGED members
       ELSE IF ok
       THEN /\ Len(members) < MaxMembers
            /\ members' = Append(members, CastDoc(memberSchema, body))
            /\ last' = Response("register", 201, "Member registered successfully", body, NoDoc)
       ELSE /\ last' = Response("register", 400, "Failed to register member", body, NoDoc)
            /\ UNCHANGED members
    /\ UNCHANGED <<services, requests, remit>>

\* UpdateEnquiry with the filter left out: the first enquiry of the collection
\* is updated, whatever its mobile.
UpdateEnquiryUnfiltered(body, ok) ==
    /\ IF ~ok \/ ~CanCast(requestSchema, body)
       THEN /\ last' = Response("updateEnquiry", 400, "Failed to update request", body, NoDoc)
            /\ UNCHANGED requests
       ELSE IF requests = <<>>
       THEN /\ last' = Response("updateEnquiry", 404, "Request not found", body, NoDoc)
            /\ UNCHANGED requests
       ELSE /\ requests' = [requests EXCEPT ![1] = Merge(@, CastDoc(requestSchema, body))]
            /\ last' = Response("updateEnquiry", 200, "Request updated successfully", body,
                                requests'[1])
    /\ UNCHANGED <<services, members, remit>>

UpdateEnquiry(body, ok) ==
    /\ IF ~ok \/ ~CanCast(requestSchema, body)
       THEN /\ last' = Response("updateEnquiry", 400, "Failed to update request", body, NoDoc)
            /\ UNCHANGED requests
       ELSE IF FirstMatch(requests, CastNumber(body.mobile)) = 0
       THEN /\ last' = Response("updateEnquiry", 404, "Request not found", body, NoDoc)
            /\ UNCHANGED requests
       ELSE /\ requests' = findOneAndUpdate(requests, CastNumber(body.mobile),
                                            CastDoc(requestSchema, body))
            /\ last' = Response("updateEnquiry", 200, "Request updated successfully", body,
                                requests'[FirstMatch(requests, CastNumber(body.mobile))])
    /\ UNCHANGED <<services, members, remit>>

UpdatePassword(body, ok) ==
    /\ IF ~ok \/ ~CanCast(memberSchema, body)
       THEN /\ last' = Response("updatePassword", 400, "Failed to update password", body, NoDoc)
            /\ UNCHANGED members
       ELSE IF FirstMatch(members, CastNumber(body.mobile)) = 0
       THEN /\ last' = Response("updatePassword", 404, "Member not found", body, NoDoc)
            /\ UNCHANGED members
       ELSE /\ members' = findOneAndUpdate(members, CastNumber(body.mobile),
                               [createpassword |-> CastString(body.password)])
            /\ last' = Response("updatePassword", 200, "Password updated successfully",
                                body, NoDoc)
    /\ UNCHANGED <<services, requests, remit>>

DeleteEnquiry(body, ok) ==
    /\ IF ~ok \/ ~CanCast(requestSchema, body)
       THEN /\ last' = Response("deleteEnquiry", 400, "Failed to delete request", body, NoDoc)
            /\ UNCHANGED requests
       ELSE IF FirstMatch(requests, CastNumber(body.mobile)) = 0
       THEN /\ last' = Response("deleteEnquiry", 404, "Request not found", body, NoDoc)
            /\ UNCHANGED requests
       ELSE /\ requests' = findOneAndDelete(requests, CastNumber(body.mobile))
            /\ last' = Response("deleteEnquiry", 200, "Request deleted successfully",
                                body, NoDoc)
    /\ UNCHANGED <<services, members, remit>>

CancelMembership(body, ok) ==
    /\ IF ~ok \/ ~CanCast(memberSchema, body)
       THEN /\ last' = Response("cancelMembership", 400, "Failed to cancel membership",
                                body, NoDoc)
            /\ UNCHANGED members
       ELSE IF FirstMatch(members, CastNumber(body.mobile)) = 0
       THEN /\ last' = Response("cancelMembership", 404, "Member not found", body, NoDoc)
            /\ UNCHANGED members
       ELSE /\ members' = findOneAndDelete(members, CastNumber(body.mobile))
            /\ last' = Response("cancelMembership", 200, "Membership cancelled successfully",
                                body, NoDoc)
    /\ UNCHANGED <<services, requests, remit>>

(***************************************************************************)
(* The remittance handler: the entry up to the await, the store's read,    *)
(* and the continuation after the await.                                   *)
(***************************************************************************)
\* RemitCall checking the mobile alone.
RemitCallMobileOnly(body) ==
    /\ remit.pc = "idle"
    /\ IF ~Truthy(body, "mobile")
       THEN /\ last' = Response("requestRemittance", 400,
                                "Amount and mobile number are required", body, NoDoc)
            /\ UNCHANGED remit
       ELSE /\ remit' = [pc |-> "await", body |-> body, userRequest |-> NoDoc]
            /\ UNCHANGED last
    /\ UNCHANGED <<services, requests, members>>

RemitCall(body) ==
    /\ remit.pc = "idle"
    /\ IF ~Truthy(body, "amt") \/ ~Truthy(body, "mobile")
       THEN /\ last' = Response("requestRemittance", 400,
                                "Amount and mobile number are required", body, NoDoc)
            /\ UNCHANGED remit
       ELSE /\ remit' = [pc |-> "await", body |-> body, userRequest |-> NoDoc]
            /\ UNCHANGED last
    /\ UNCHANGED <<services, requests, members>>

RemitLookup(ok) ==
    /\ remit.pc = "await"
    /\ IF ok /\ CanCastNumber(remit.body.mobile)
       THEN remit' = [remit EXCEPT !.pc = "resume",
                         !.userRequest = findOne(requests, CastNumber(remit.body.mobile))]
       ELSE remit' = [remit EXCEPT !.pc = "rejected"]
    /\ UNCHANGED <<services, requests, members, last>>

\* RemitRespond reading the store again when it answers.
RemitRespondRereads ==
    /\ remit.pc = "resume"
    /\ IF findOne(requests, CastNumber(remit.body.mobile)) = NoDoc
       THEN last' = Response("requestRemittance", 404,
                             "No loan enquiry found for this mobile number", remit.body, NoDoc)
       ELSE last' = Response("requestRemittance", 200,
                             "Remittance for loan approved successfully", remit.body, NoDoc)
    /\ remit' = Idle
    /\ UNCHANGED <<services, requests, members>>

RemitRespond ==
    /\ remit.pc = "resume"
    /\ IF remit.userRequest = NoDoc
       THEN last' = Response("requestRemittance", 404,
                             "No loan enquiry found for this mobile number", remit.body, NoDoc)
       ELSE last' = Response("requestRemittance", 200,
                             "Remittance for loan approved successfully", remit.body, NoDoc)
    /\ remit' = Idle
    /\ UNCHANGED <<services, requests, members>>

RemitRejected(outcome) ==
    /\ remit.pc = "rejected"
    /\ last' = Response("requestRemittance", outcome, "", remit.body, NoDoc)
    /\ remit' = Idle
    /\ UNCHANGED <<services, requests, members>>

(***************************************************************************)
(* Loan catalog and interest calculation.                                  *)
(***************************************************************************)
TypeMatches(coll, type) == {i \in 1..Len(coll) : coll[i].type = type}

findOneByType(coll, type) ==
    IF TypeMatches(coll, type) = {} THEN NoDoc
    ELSE coll[CHOOSE i \in TypeMatches(coll, type) : \A j \in TypeMatches(coll, type) : i <= j]

briefServices(coll) ==
    [i \in 1..Len(coll) |-> [type |-> coll[i].type, description |-> coll[i].description,
                             imgUrl |-> coll[i].imgUrl]]

ListProducts(ok) ==
    /\ IF ~ok
       THEN last' = Response("listProducts", 500, "Failed to fetch services", NoBody, NoDoc)
       ELSE IF Len(services) = 0
       THEN last' = Response("listProducts", 404, "No loan services available", NoBody, NoDoc)
       ELSE last' = Response("listProducts", 200, "", NoBody,
                             [list |-> briefServices(services)])
    /\ UNCHANGED <<services, requests, members, remit>>

GetProduct(type, ok) ==
    /\ IF ~ok
       THEN last' = Response("getProduct", 500, "Failed to fetch service details",
                             [type |-> Str(type)], NoDoc)
       ELSE IF findOneByType(services, type) = NoDoc
       THEN last' = Response("getProduct", 404, "Service not found", [type |-> Str(type)], NoDoc)
       ELSE last' = Response("getProduct", 200, "", [type |-> Str(type)],
                             findOneByType(services, type))
    /\ UNCHANGED <<services, requests, members, remit>>

\* Money in a calculation result is held in hundredths, so that the division
\* by 100 is exact: a result field v stands for v / 100.
Hundredths(n) == 100 * n

\* interest over the product's tenure instead of the requested one.
interestProductTenure(amt, service, tenure) == amt * service.interestRate * service.tenure

interest(amt, service, tenure) == amt * service.interestRate * tenure

totalAmount(amt, service, tenure) == Hundredths(amt) + interest(amt, service, tenure)

\* req is the body together with the :type of the path.
CalculateInterest(type, body, ok, outcome) ==
    /\ LET req == [f \in DOMAIN body \cup {"type"} |-> IF f = "type" THEN Str(type) ELSE body[f]]
           service == findOneByType(services, type)
       IN IF ~ok
          THEN last' = Response("calculateInterest", outcome, "", req, NoDoc)
          ELSE IF service = NoDoc
          THEN last' = Response("calculateInterest", 404, "Loan type not found", req, NoDoc)
          ELSE IF ~Truthy(body, "amt") \/ ~Truthy(body, "tenure")
          THEN last' = Response("calculateInterest", 400, "Amount and tenure are required",
                                req, NoDoc)
          ELSE last' = Response("calculateInterest", 200, "", req,
                          [totalAmount |-> totalAmount(body.amt.n, service, body.tenure.n),
                           interest |-> interest(body.amt.n, service, body.tenure.n),
                           loanAmount |-> body.amt.n,
                           tenure |-> body.tenure.n])
    /\ UNCHANGED <<services, requests, members, remit>>

(***************************************************************************)
(* Specifications.  Spec is the enquiry lifecycle with remittance,         *)
(* SpecRegistry the enquiries and members together, SpecCatalog the        *)
(* catalog reads and the interest calculation.                             *)
(***************************************************************************)
Personal == [type |-> "personal", description |-> "Personal loan", interestRate |-> 10,
             maxAmount |-> 100000, tenure |-> 12, imgUrl |-> "personal.png"]
Home == [type |-> "home", description |-> "Home loan", interestRate |-> 7,
         maxAmount |-> 900000, tenure |-> 240, imgUrl |-> "home.png"]

Catalogs == { <<>>, <<Personal>>, <<Home, Personal>> }

NoCall == Response("none", NoResponse, "", NoBody, NoDoc)

Init ==
    /\ services = <<Home, Personal>>
    /\ requests = <<>>
    /\ members = <<>>
    /\ remit = Idle
    /\ last = NoCall

Next ==
    \/ \E body \in EnquiryBodies, ok \in BOOLEAN : SubmitEnquiry(body, ok)
    \/ \E body \in UpdateBodies, ok \in BOOLEAN : UpdateEnquiry(body, ok)
    \/ \E body \in MobileBodies, ok \in BOOLEAN : DeleteEnquiry(body, ok)
    \/ \E body \in RemitBodies : RemitCall(body)
    \/ \E ok \in BOOLEAN : RemitLookup(ok)
    \/ RemitRespond
    \/ \E outcome \in UnhandledOutcomes : RemitRejected(outcome)

Spec == Init /\ [][Next]_vars

NextRegistry ==
    \/ \E body \in EnquiryBodies, ok \in BOOLEAN : SubmitEnquiry(body, ok)
    \/ \E body \in MemberBodies, ok \in BOOLEAN : Register(body, ok)
    \/ \E body \in UpdateBodies, ok \in BOOLEAN : UpdateEnquiry(body, ok)
    \/ \E body \in PasswordBodies, ok \in BOOLEAN : UpdatePassword(body, ok)
    \/ \E body \in MobileBodies, ok \in BOOLEAN : DeleteEnquiry(body, ok)
    \/ \E body \in MobileBodies, ok \in BOOLEAN : CancelMembership(body, ok)

SpecRegistry == Init /\ [][NextRegistry]_vars

InitCatalog ==
    /\ services \in Catalogs
    /\ requests = <<>>
    /\ members = <<>>
    /\ remit = Idle
    /\ last = NoCall

NextCatalog ==
    \/ \E ok \in BOOLEAN : ListProducts(ok)
    \/ \E type \in Types, ok \in BOOLEAN : GetProduct(type, ok)
    \/ \E type \in Types, body \in CalculateBodies, ok \in BOOLEAN,
          outcome \in UnhandledOutcomes : CalculateInterest(type, body, ok, outcome)

SpecCatalog == InitCatalog /\ [][NextCatalog]_vars

(***************************************************************************)
(* Properties.                                                             *)
(***************************************************************************)
HasEnquiry(coll, body) ==
    /\ "mobile" \in DOMAIN body
    /\ CanCastNumber(body.mobile)
    /\ Matches(coll, CastNumber(body.mobile)) # {}

\* A step in which the remittance handler answers at its entry, before any lookup.
RemitAnsweredAtEntry ==
    remit.pc = "idle" /\ remit' = remit /\ last' # last /\ last'.op = "requestRemittance"

\* A step in which the store carries out the remittance handler's findOne.
RemitLookedUp == remit.pc = "await" /\ remit'.pc = "resume"

\* A step in which the remittance handler answers after its lookup.
RemitAnsweredAfterLookup == remit.pc = "resume" /\ remit'.pc = "idle"

\* C1 (as claimed): requestRemittance answers with success if and only if an
\* enquiry with the given mobile is in the store at the moment of the lookup
\* (at the moment of the call, when the handler answers without a lookup), and
\* answers with an error otherwise.
C1_SuccessIffEnquiryExists ==
    [][ /\ RemitAnsweredAtEntry =>
             /\ last'.status = 200 <=> HasEnquiry(requests, last'.req)
             /\ last'.status = 200 \/ last'.status >= 400
        /\ RemitLookedUp =>
             (remit'.userRequest # NoDoc <=> HasEnquiry(requests, remit.body))
        /\ RemitAnsweredAfterLookup =>
             /\ last'.status = 200 <=> remit.userRequest # NoDoc
             /\ last'.status = 200 \/ last'.status >= 400 ]_vars

\* C1 (amended): requestRemittance answers with success if and only if amt and
\* mobile are both present and non-zero and its lookup found an enquiry with
\* that mobile in the store at the moment of the lookup; it answers
\* InvalidInput (400) without a lookup when amt or mobile is missing or zero,
\* whatever the store holds, and NotFound (404) when the lookup found none.
C1_SuccessIffTruthyAndFound ==
    [][ /\ RemitAnsweredAtEntry =>
             /\ last'.status = 400
             /\ ~Truthy(last'.req, "amt") \/ ~Truthy(last'.req, "mobile")
        /\ (remit.pc = "idle" /\ remit'.pc = "await") =>
             Truthy(remit'.body, "amt") /\ Truthy(remit'.body, "mobile")
        /\ RemitLookedUp =>
             /\ remit'.userRequest # NoDoc <=> HasEnquiry(requests, remit.body)
             /\ remit'.userRequest # NoDoc =>
                  /\ remit'.userRequest.mobile = CastNumber(remit.body.mobile)
                  /\ \E i \in 1..Len(requests) : requests[i] = remit'.userRequest
        /\ RemitAnsweredAfterLookup =>
             /\ last'.status = 200 <=> remit.userRequest # NoDoc
             /\ remit.userRequest = NoDoc => last'.status = 404
        /\ (remit.pc = "rejected" /\ remit'.pc = "idle") => last'.status # 200 ]_vars

\* C1 witness: a remittance answered with success while the enquiry it found
\* is in the store.
C1_Witness ==
    /\ last.op = "requestRemittance"
    /\ last.status = 200
    /\ HasEnquiry(requests, last.req)

\* C10: requestRemittance is not atomic with deleteEnquiry.  While the handler
\* is suspended with the enquiry it found, deleteEnquiry for that mobile can
\* run and remove the enquiry, and the handler then still answers with
\* success: its answer is decided by the earlier read alone, and it writes
\* nothing.
C10_RemittanceNotAtomic ==
    /\ [](remit.pc = "resume" /\ HasEnquiry(requests, remit.body) =>
            ENABLED (/\ DeleteEnquiry([mobile |-> remit.body.mobile], TRUE)
                     /\ last'.status = 200))
    /\ [][ (RemitAnsweredAfterLookup /\ remit.userRequest # NoDoc) =>
             /\ last' = Response("requestRemittance", 200,
                                 "Remittance for loan approved successfully", remit.body, NoDoc)
             /\ requests' = requests ]_vars

\* C10 witness: the remittance has just answered with success and no enquiry
\* with its mobile is left in the store.
C10_Witness ==
    /\ last.op = "requestRemittance"
    /\ last.status = 200
    /\ ~HasEnquiry(requests, last.req)

\* C3 (as claimed): when deleteEnquiry is called twice in a row with the same
\* mobile and the store carries out both calls, the second call answers
\* NotFound.
C3_SecondDeleteNotFound ==
    [][ \A body \in MobileBodies :
          ( /\ last.op = "deleteEnquiry"
            /\ last.req = body
            /\ last'.req = body
            /\ last.status \in {200, 404}
            /\ CanCast(requestSchema, body)
            /\ DeleteEnquiry(body, TRUE) ) => last'.status = 404 ]_vars

\* The payload's value of field f, read as the type the field has.
FieldOf(body, f) == IF f \in requestSchema.num THEN CastNumber(body[f]) ELSE body[f].s

SameFields(doc, body) ==
    /\ doc # NoDoc
    /\ \A f \in requestSchema.num \cup requestSchema.str :
          IF f \in DOMAIN body THEN f \in DOMAIN doc /\ doc[f] = FieldOf(body, f)
          ELSE f \notin DOMAIN doc

\* C4 (as claimed): after a successful submitEnquiry(payload), findOne on
\* payload.mobile returns a record whose mobile, email, amount, type, message
\* and code are those of the payload.
C4_RoundTrip ==
    [][ \A body \in EnquiryBodies :
          (/\ last'.op = "submitEnquiry" /\ last'.req = body
           /\ validateRequest(body) /\ SubmitEnquiry(body, TRUE)) =>
              SameFields(findOne(requests', CastNumber(body.mobile)), body) ]_vars

\* The record that updateEnquiry with this body matches, after the update.
UpdatedBy(coll, body) ==
    findOneAndUpdate(coll, CastNumber(body.mobile), CastDoc(requestSchema, body))
        [FirstMatch(coll, CastNumber(body.mobile))]

\* C9 (as claimed): updateEnquiry can orphan the enquiry it matches: whenever
\* enquiries are stored there is a call that matches one of them and
\* overwrites its mobile, so that a lookup by the mobile used to find it no
\* longer returns it.
C9_UpdateCanOrphan ==
    requests # <<>> =>
        \E body \in UpdateBodies :
            /\ CanCast(requestSchema, body)
            /\ FirstMatch(requests, CastNumber(body.mobile)) # 0
            /\ UpdatedBy(requests, body).mobile # CastNumber(body.mobile)
            /\ findOne(findOneAndUpdate(requests, CastNumber(body.mobile),
                                        CastDoc(requestSchema, body)),
                       CastNumber(body.mobile)) # UpdatedBy(requests, body)

\* C9 (amended): updateEnquiry takes the mobile it looks up and the mobile it
\* writes from the same field of the body, so it never changes the mobile of
\* any record: after a successful update the lookup by the same mobile
\* returns the updated record.
C9_UpdateKeepsMobile ==
    [][ \A body \in UpdateBodies :
          (/\ last'.op = "updateEnquiry" /\ last'.req = body /\ last'.status = 200
           /\ UpdateEnquiry(body, TRUE)) =>
              /\ Len(requests') = Len(requests)
              /\ \A i \in 1..Len(requests) : requests'[i].mobile = requests[i].mobile
              /\ findOne(requests', CastNumber(body.mobile)) = last'.doc
              /\ last'.doc.mobile = CastNumber(body.mobile) ]_vars

\* C9 witness: an update has been carried out on one of two enquiries and the
\* lookup by its mobile returns the updated record.
C9_Witness ==
    /\ last.op = "updateEnquiry"
    /\ last.status = 200
    /\ Len(requests) = 2
    /\ findOne(requests, CastNumber(last.req.mobile)) = last.doc

\* coll2 is coll with the document at i given the fields of upd and nothing
\* else changed.
OnlyUpdatedAt(coll, coll2, i, upd) ==
    /\ Len(coll2) = Len(coll)
    /\ \A j \in 1..Len(coll) : j # i => coll2[j] = coll[j]
    /\ DOMAIN coll2[i] = DOMAIN coll[i] \cup DOMAIN upd
    /\ \A f \in DOMAIN coll2[i] : coll2[i][f] = IF f \in DOMAIN upd THEN upd[f] ELSE coll[i][f]

\* coll2 is coll with the document at i taken out and nothing else changed.
OnlyRemovedAt(coll, coll2, i) ==
    /\ Len(coll2) = Len(coll) - 1
    /\ \A j \in 1..Len(coll2) : coll2[j] = IF j < i THEN coll[j] ELSE coll[j + 1]

\* The frame of an operation by mobile on collection coll, with other the
\* other collection.
FrameOfUpdate(coll, coll2, other, other2, mobile, upd) ==
    /\ other2 = other
    /\ IF Matches(coll, mobile) = {}
       THEN last'.status = 404 /\ coll2 = coll
       ELSE /\ last'.status = 200
            /\ \E i \in Matches(coll, mobile) : OnlyUpdatedAt(coll, coll2, i, upd)

FrameOfDelete(coll, coll2, other, other2, mobile) ==
    /\ other2 = other
    /\ IF Matches(coll, mobile) = {}
       THEN last'.status = 404 /\ coll2 = coll
       ELSE /\ last'.status = 200
            /\ \E i \in Matches(coll, mobile) : OnlyRemovedAt(coll, coll2, i)

\* C2: updateEnquiry, deleteEnquiry, updatePassword and cancelMembership, when
\* the store carries the operation out: with no record of the given mobile
\* the answer is NotFound and both collections are unchanged; with k >= 1
\* records of that mobile exactly one of them is updated or removed, and the
\* other k-1 and all records of other mobiles are unchanged.
C2_ExactlyOneRecordAffected ==
    [][ /\ \A body \in UpdateBodies :
             (/\ last'.op = "updateEnquiry" /\ last'.req = body
              /\ CanCast(requestSchema, body) /\ UpdateEnquiry(body, TRUE)) =>
                 FrameOfUpdate(requests, requests', members, members',
                               CastNumber(body.mobile), CastDoc(requestSchema, body))
        /\ \A body \in PasswordBodies :
             (/\ last'.op = "updatePassword" /\ last'.req = body
              /\ CanCast(memberSchema, body) /\ UpdatePassword(body, TRUE)) =>
                 FrameOfUpdate(members, members', requests, requests',
                               CastNumber(body.mobile), [createpassword |-> body.password.s])
        /\ \A body \in MobileBodies :
             (/\ last'.op = "deleteEnquiry" /\ last'.req = body
              /\ CanCast(requestSchema, body) /\ DeleteEnquiry(body, TRUE)) =>
                 FrameOfDelete(requests, requests', members, members', CastNumber(body.mobile))
        /\ \A body \in MobileBodies :
             (/\ last'.op = "cancelMembership" /\ last'.req = body
              /\ CanCast(memberSchema, body) /\ CancelMembership(body, TRUE)) =>
                 FrameOfDelete(members, members', requests, requests', CastNumber(body.mobile))
      ]_vars

\* C2 witness: a delete has removed one of two enquiries of the same mobile,
\* and the other one is still stored beside the members.
C2_Witness ==
    /\ last.op = "deleteEnquiry"
    /\ last.status = 200
    /\ HasEnquiry(requests, last.req)
    /\ members # <<>>

\* A payload with a required field missing or ill-typed.
IsNumber(body, f) == f \in DOMAIN body /\ (body[f].t = "num" \/ body[f].s \in {"1", "2"})
IsText(body, f) == f \in DOMAIN body /\ body[f].t = "str" /\ body[f].s # ""
IsEmail(body, f) == IsText(body, f) /\ body[f].s \in {"a@x.io", "b@x.io"}

InvalidEnquiry(body) ==
    ~(IsNumber(body, "mobile") /\ IsEmail(body, "email") /\ IsNumber(body, "amt")
        /\ IsText(body, "type"))

InvalidRegistration(body) ==
    ~(IsNumber(body, "mobile") /\ IsEmail(body, "email") /\ IsText(body, "occupation")
        /\ IsText(body, "createpassword"))

\* C7: an enquiry or registration payload with a required field missing or
\* ill-typed is answered 400 by the validation middleware, not by the handler,
\* and the LoanEnquiry and Member collections stay as they were.
C7_InvalidPayloadRejected ==
    [][ /\ \A body \in EnquiryBodies, ok \in BOOLEAN :
             (/\ last'.op = "submitEnquiry" /\ last'.req = body
              /\ InvalidEnquiry(body) /\ SubmitEnquiry(body, ok)) =>
                 /\ last' = Response("submitEnquiry", 400, "ValidationError", body, NoDoc)
                 /\ requests' = requests /\ members' = members
        /\ \A body \in MemberBodies, ok \in BOOLEAN :
             (/\ last'.op = "register" /\ last'.req = body
              /\ InvalidRegistration(body) /\ Register(body, ok)) =>
                 /\ last' = Response("register", 400, "ValidationError", body, NoDoc)
                 /\ requests' = requests /\ members' = members ]_vars

\* C7 witness: an invalid registration has been rejected while both
\* collections hold records.
C7_Witness ==
    /\ last.op = "register"
    /\ InvalidRegistration(last.req)
    /\ last.status = 400
    /\ requests # <<>> /\ members # <<>>

\* A calculation request whose amount or tenure is missing, zero or negative.
NonPositive(req, f) == f \notin DOMAIN req \/ req[f].n <= 0

KnownType(req) == \E i \in 1..Len(services) : services[i].type = req.type.s

\* C5 (as claimed): for an existing product type, calculateInterest with
\* amount or tenure missing, zero or negative is never answered with success:
\* it is answered InvalidInput (400), unless the store read fails.
C5_NonPositiveIsInvalidInput ==
    (/\ last.op = "calculateInterest"
     /\ KnownType(last.req)
     /\ NonPositive(last.req, "amt") \/ NonPositive(last.req, "tenure"))
        => last.status \in {400} \cup UnhandledOutcomes

\* The rate of the product of the request's type.
RateOf(req) == (CHOOSE i \in 1..Len(services) : services[i].type = req.type.s)

C8_StoreFailureAnswered ==
    [][ \A ok \in {FALSE} :
          ( \/ ListProducts(ok)
            \/ \E type \in Types : GetProduct(type, ok)
            \/ \E type \in Types, body \in CalculateBodies, outcome \in UnhandledOutcomes :
                  CalculateInterest(type, body, ok, outcome)
            \/ \E body \in EnquiryBodies : validateRequest(body) /\ SubmitEnquiry(body, ok)
            \/ \E body \in MemberBodies : validateMember(body) /\ Register(body, ok)
            \/ \E body \in UpdateBodies : UpdateEnquiry(body, ok)
            \/ \E body \in PasswordBodies : UpdatePassword(body, ok)
            \/ \E body \in MobileBodies : DeleteEnquiry(body, ok)
            \/ \E body \in MobileBodies : CancelMembership(body, ok)
            \/ \E outcome \in UnhandledOutcomes : RemitRejected(outcome) )
          => (last'.status # NoResponse /\ last'.status >= 400) ]_vars

====
